---- MODULE Spec2Model ----
(***************************************************************************)
(* Model of the Ui class of the editorjs-image block, in its two revisions *)
(*   rev = "ui"   : src/src/ui.js, lines 1-632                             *)
(*   rev = "part" : src/unnamed/part_000, lines 139-829                    *)
(* Lengths are integers counted in units of 1/Den pixel, so that the       *)
(* fractional sizes a transformer drag produces, and what parseInt does to *)
(* them, are part of the model.                                            *)
(***************************************************************************)
EXTENDS Integers, Sequences, FiniteSets, TLC

VARIABLES
  rev,          \* which revision of the Ui class runs
  quirks,       \* the host document is in quirks mode (no doctype)
  readOnly,     \* this.readOnly
  config,       \* this.config
  classes,      \* this.nodes.wrapper.classList
  preloaderBg,  \* this.nodes.imagePreloader.style.backgroundImage
  alignSel,     \* align buttons carrying image-tool__align-selected
  imageEl,      \* this.nodes.imageEl
  fields,       \* the width / height fields: text, placeholder, contentEditable
  buttons,      \* setSizeButton.disabled, undoResizeButton.disabled / hidden
  konva,        \* this.konva and the overlay in the image container
  fills,        \* how often the host has called fillImage
  threw,        \* the last handler ended in a TypeError
  entry,        \* the state in which resize mode was last entered
  hist          \* the last operation and its argument

vars == <<rev, quirks, readOnly, preloaderBg, config, classes, alignSel,
          imageEl, fields, buttons, konva, fills, threw, entry, hist>>

-----------------------------------------------------------------------------
(* Bounds and program constants *)

Den == 2

MaxFills == 1

MAX_WIDTH == 700

MAX_HEIGHT == 410

Px(n) == n * Den

-----------------------------------------------------------------------------
(* JavaScript values: undefined, NaN and finite numbers *)

Undef == [k |-> "undef", v |-> 0]

NaN == [k |-> "nan", v |-> 0]

Num(n) == [k |-> "num", v |-> n]

IsNum(x) == x.k = "num"

Abs(n) == IF n < 0 THEN -n ELSE n

\* truthiness of a number-valued slot
Truthy(x) == IsNum(x) /\ x.v # 0

\* parseInt of a number: its decimal text up to the point, truncated toward zero
ParseInt(x) ==
  IF ~IsNum(x) THEN NaN
  ELSE IF x.v >= 0 THEN Num((x.v \div Den) * Den)
  ELSE Num(-((( -x.v) \div Den) * Den))

-----------------------------------------------------------------------------
(* Field texts are sequences of characters; Number() and the CSS parser    *)
(* read them character by character.                                       *)

Digits == {"0", "1", "2", "3", "4", "5", "6", "7", "8", "9"}

DigitVal(c) ==
  CASE c = "0" -> 0 [] c = "1" -> 1 [] c = "2" -> 2 [] c = "3" -> 3
    [] c = "4" -> 4 [] c = "5" -> 5 [] c = "6" -> 6 [] c = "7" -> 7
    [] c = "8" -> 8 [] c = "9" -> 9

IsDigits(s) == Len(s) > 0 /\ \A i \in 1..Len(s) : s[i] \in Digits

RECURSIVE DecVal(_)
DecVal(s) ==
  IF Len(s) = 0 THEN 0
  ELSE 10 * DecVal(SubSeq(s, 1, Len(s) - 1)) + DigitVal(s[Len(s)])

RECURSIVE TrimLeft(_)
TrimLeft(s) ==
  IF Len(s) > 0 /\ s[1] = " " THEN TrimLeft(Tail(s)) ELSE s

RECURSIVE TrimRight(_)
TrimRight(s) ==
  IF Len(s) > 0 /\ s[Len(s)] = " "
  THEN TrimRight(SubSeq(s, 1, Len(s) - 1)) ELSE s

\* Number(text): white space is trimmed, the empty string is 0, an optional
\* sign and decimal digits are a number, anything else is NaN
Number(s) ==
  LET t == TrimRight(TrimLeft(s)) IN
  IF Len(t) = 0 THEN Num(0)
  ELSE IF IsDigits(t) THEN Num(Px(DecVal(t)))
  ELSE IF t[1] = "-" /\ IsDigits(Tail(t)) THEN Num(-Px(DecVal(Tail(t))))
  ELSE NaN

\* String(number), as `${x}` and innerText = x produce it, for the whole
\* numbers parseInt returns; NaN prints as the text NaN
DigitChars == <<"0", "1", "2", "3", "4", "5", "6", "7", "8", "9">>

RECURSIVE DecText(_)
DecText(n) ==
  IF n < 10 THEN <<DigitChars[n + 1]>>
  ELSE Append(DecText(n \div 10), DigitChars[(n % 10) + 1])

IntText(x) ==
  IF ~IsNum(x) THEN <<"N", "a", "N">>
  ELSE IF x.v < 0 THEN <<"-">> \o DecText((-x.v) \div Den)
  ELSE DecText(x.v \div Den)

-----------------------------------------------------------------------------
(* Inline style lengths: the empty string or a length in pixels *)

CssEmpty == [k |-> "empty", v |-> 0]

CssPx(n) == [k |-> "px", v |-> n]

\* style.width = text + 'px' (the property setter): a declaration the CSS
\* parser rejects leaves the old value in place.  Leading white space is
\* skipped; a width is a non-negative number directly followed by its unit.
SetLengthText(old, s) ==
  LET t == TrimLeft(s) IN
  IF IsDigits(t) THEN CssPx(Px(DecVal(t))) ELSE old

\* style.width = <number>: the number is turned into its text without a
\* unit, which only quirks mode (or the value 0) accepts as a length;
\* undefined and NaN become the texts undefined and NaN, never a length
SetLengthNumber(old, x, q) ==
  IF IsNum(x) /\ x.v = 0 THEN CssPx(0)
  ELSE IF IsNum(x) /\ x.v > 0 /\ q THEN CssPx(x.v)
  ELSE old

\* one declaration `width:${x}px` of a cssText assignment, which replaces
\* the whole inline style: a rejected declaration leaves the property empty
CssTextLength(x) ==
  IF IsNum(x) /\ x.v >= 0 THEN CssPx(x.v) ELSE CssEmpty

-----------------------------------------------------------------------------
(* Inputs of the environment *)

\* what the user can have typed into a size field
WidthTexts == { <<>>, <<"3", "0", "0">>, <<"9", "0", "0">>, <<"a", "b", "c">> }

HeightTexts == { <<>>, <<"1", "5", "1">> }

\* the media the host fills in: url, natural width and height
Media == { <<"a.jpg", Px(400), Px(200)>>, <<"b.mp4", Px(400), Px(200)>> }

Stills == { m \in Media : m[1] = "a.jpg" }

\* boxes a transformer drag proposes: whole and fractional pixel sizes,
\* inside, on and beyond the maximum extent
DragBoxes ==
  { <<Px(250) + 1, Px(120) + 1>>, <<Px(MAX_WIDTH), Px(MAX_HEIGHT)>>,
    <<Px(MAX_WIDTH) + 1, Px(120) + 1>>, <<Px(250) + 1, Px(MAX_HEIGHT) + 1>> }

Aligns == {"left", "center", "right"}

-----------------------------------------------------------------------------
(* State after construction *)

\* config.konvaWidth of the part_000 revision is set outside the Ui class
KonvaWidthDefault == 700

NoImage ==
  [exists |-> FALSE, tag |-> "IMG", loaded |-> FALSE, natW |-> 0, natH |-> 0,
   style |-> [width |-> CssEmpty, height |-> CssEmpty], attached |-> FALSE,
   autoplay |-> FALSE, loop |-> FALSE, muted |-> FALSE, event |-> "none",
   olderAttached |-> 0, olderLoading |-> 0]

NoKonva ==
  [stage |-> FALSE, overlay |-> FALSE, dragged |-> FALSE,
   box |-> [width |-> Undef, height |-> Undef],
   maxW |-> Undef, maxHNum |-> Undef, maxHDen |-> 0,
   rotateEnabled |-> FALSE, enabledAnchors |-> {}, draggable |-> FALSE]

PhConfig == [k |-> "config", v |-> 0]

SavedSizes == { <<Undef, Undef>>, <<Num(Px(302)), Num(Px(151))>> }

InitConfig(r, saved) ==
  [isSelectedLeft |-> FALSE, isSelectedCenter |-> FALSE,
   isSelectedRight |-> FALSE, isChangeResizeMode |-> FALSE,
   imageWidth |-> Undef, imageHeight |-> Undef,
   konvaWidth |-> IF r = "part" THEN Num(Px(KonvaWidthDefault)) ELSE Undef,
   konvaHeight |-> Undef,
   width |-> saved[1], height |-> saved[2]]

\* placeholder = config.width || config.widthPlaceholder
InitPlaceholder(r, x) ==
  IF r = "part" /\ Truthy(x) THEN [k |-> "number", v |-> x.v] ELSE PhConfig

NoHist == [op |-> "init", arg |-> <<>>]

\* the persisted and the rendered size, as the claims about undo and commit
\* compare them with the size at entry to resize mode
Persisted(c) ==
  IF rev = "part" THEN [width |-> c.width, height |-> c.height]
  ELSE [width |-> c.imageWidth, height |-> c.imageHeight]

NoEntry ==
  [valid |-> FALSE, persisted |-> [width |-> Undef, height |-> Undef],
   style |-> [width |-> CssEmpty, height |-> CssEmpty]]

Init ==
  /\ rev \in {"ui", "part"}
  /\ quirks \in BOOLEAN
  /\ (rev = "ui" => ~quirks)   \* src/src/ui.js gives every length its unit
  /\ readOnly \in BOOLEAN
  /\ \E saved \in SavedSizes :
       /\ (rev = "ui" => saved = <<Undef, Undef>>)
       /\ config = InitConfig(rev, saved)
       /\ fields = [wText |-> <<>>, hText |-> <<>>,
                    wPh |-> InitPlaceholder(rev, saved[1]),
                    hPh |-> InitPlaceholder(rev, saved[2]),
                    wEdit |-> ~readOnly, hEdit |-> ~readOnly]
  /\ classes = {}
  /\ preloaderBg = ""
  /\ alignSel = {}
  /\ imageEl = NoImage
  /\ buttons = [setSizeDisabled |-> FALSE, undoDisabled |-> TRUE,
                undoHidden |-> FALSE]
  /\ konva = NoKonva
  /\ fills = 0
  /\ threw = FALSE
  /\ entry = NoEntry
  /\ hist = NoHist

-----------------------------------------------------------------------------
(* Presentation toggles *)

ClassOf(name) == "image-tool--" \o name

\* a toggle that assigns className instead: the class put on replaces
\* every other class of the element
ClassToggle_Replace(set, name, force) ==
  IF force THEN {name} ELSE set \ {name}

\* classList.toggle(name, force) with a boolean force
ClassToggle(set, name, force) ==
  IF force THEN set \cup {name} ELSE set \ {name}

\* applyTune treating the wrapper's tune classes as one group: putting a
\* class on takes the classes of the other tunes off
applyTune_OneOfGroup(set, tuneName, status) ==
  IF status
  THEN (set \ {ClassOf(t) : t \in {"withBorder", "withBackground", "stretched"}})
         \cup {ClassOf(tuneName)}
  ELSE set \ {ClassOf(tuneName)}

applyTune(set, tuneName, status) == ClassToggle(set, ClassOf(tuneName), status)

\* a toggle that only ever switches on
isToggle_AlwaysOn(align) == TRUE

isToggle(align) == ~align

\* onSelectAlign that leaves the other positions as they were
AlignFlags_KeepOthers(c, align) ==
  [c EXCEPT
     !.isSelectedLeft = IF align = "left" THEN ~c.isSelectedLeft ELSE @,
     !.isSelectedCenter = IF align = "center" THEN ~c.isSelectedCenter ELSE @,
     !.isSelectedRight = IF align = "right" THEN ~c.isSelectedRight ELSE @]

\* onSelectAlign that forgets to clear the left flag
AlignFlags_LeftSticks(c, align) ==
  [c EXCEPT
     !.isSelectedLeft = IF align = "left" THEN ~c.isSelectedLeft ELSE @,
     !.isSelectedCenter = IF align = "center" THEN ~c.isSelectedCenter ELSE FALSE,
     !.isSelectedRight = IF align = "right" THEN ~c.isSelectedRight ELSE FALSE]

\* the three flags after onSelectAlign(align)
AlignFlags(c, align) ==
  [c EXCEPT
     !.isSelectedLeft = IF align = "left" THEN isToggle(c.isSelectedLeft) ELSE FALSE,
     !.isSelectedCenter = IF align = "center" THEN isToggle(c.isSelectedCenter) ELSE FALSE,
     !.isSelectedRight = IF align = "right" THEN isToggle(c.isSelectedRight) ELSE FALSE]

\* applyAlign that shows the centre button by the left flag
applyAlign_CenterByLeft(c) ==
  {a \in Aligns : CASE a = "left" -> c.isSelectedLeft
                    [] a = "center" -> c.isSelectedLeft
                    [] a = "right" -> c.isSelectedRight}

applyAlign(c) ==
  {a \in Aligns : CASE a = "left" -> c.isSelectedLeft
                    [] a = "center" -> c.isSelectedCenter
                    [] a = "right" -> c.isSelectedRight}

onSelectAlign(align) ==
  /\ config' = AlignFlags(config, align)
  /\ classes' = applyTune(applyTune(applyTune(classes,
                    "left", config'.isSelectedLeft),
                    "center", config'.isSelectedCenter),
                    "right", config'.isSelectedRight)
  /\ alignSel' = applyAlign(config')
  /\ threw' = FALSE
  /\ hist' = [op |-> "onSelectAlign", arg |-> <<align, applyAlign(config)>>]
  /\ UNCHANGED <<fills, rev, quirks, readOnly, preloaderBg, imageEl, fields, buttons, konva, entry>>

\* the tunes the host toggles through applyTune
Tunes == {"withBorder", "withBackground", "stretched"}

HostApplyTune(tuneName, status) ==
  /\ classes' = applyTune(classes, tuneName, status)
  /\ threw' = FALSE
  /\ hist' = [op |-> "applyTune", arg |-> <<tuneName>>]
  /\ UNCHANGED <<fills, rev, quirks, readOnly, preloaderBg, config, alignSel, imageEl,
                 fields, buttons, konva, entry>>

-----------------------------------------------------------------------------
(* Status and media *)

Statuses == {"empty", "loading", "filled"}

\* a status change that adds the new class and leaves the old one
toggleStatus_AddOnly(set, status) == set \cup {ClassOf(status)}

\* a status that can no longer change once it is filled
toggleStatus_FilledSticks(set, status) ==
  IF ClassOf("filled") \in set THEN set
  ELSE (set \ {ClassOf(st) : st \in Statuses}) \cup {ClassOf(status)}

toggleStatus(set, status) ==
  (set \ {ClassOf(st) : st \in Statuses}) \cup {ClassOf(status)}

Urls == {"a.jpg", "b.mp4", "c.mp4?v=1", "d.MP4", "e.mp4.png", "mp4"}

\* the characters of a url
UrlChars(url) ==
  CASE url = "a.jpg" -> <<"a", ".", "j", "p", "g">>
    [] url = "b.mp4" -> <<"b", ".", "m", "p", "4">>
    [] url = "c.mp4?v=1" -> <<"c", ".", "m", "p", "4", "?", "v", "=", "1">>
    [] url = "d.MP4" -> <<"d", ".", "M", "P", "4">>
    [] url = "e.mp4.png" -> <<"e", ".", "m", "p", "4", ".", "p", "n", "g">>
    [] url = "mp4" -> <<"m", "p", "4">>

Mp4Pattern == <<".", "m", "p", "4">>

\* the pattern \.mp4 matches the text at position i
MatchesAt(s, i) ==
  i + Len(Mp4Pattern) - 1 <= Len(s)
    /\ SubSeq(s, i, i + Len(Mp4Pattern) - 1) = Mp4Pattern

\* the test without its end anchor: /\.mp4/.test(url)
RegexMp4_NoAnchor(s) == \E i \in 1..Len(s) : MatchesAt(s, i)

\* /\.mp4$/.test(url): some match ends where the text ends
RegexMp4(s) ==
  \E i \in 1..Len(s) : MatchesAt(s, i) /\ i + Len(Mp4Pattern) - 1 = Len(s)

TagOf(url) == IF RegexMp4(UrlChars(url)) THEN "VIDEO" ELSE "IMG"

\* the element fillImage composes; the part_000 revision sets its inline
\* size from config.width / config.height
\* fillImage appends the new element and removes nothing: the elements of
\* earlier calls stay in the container, and those still loading keep their
\* load listener
OlderAttached(el) ==
  el.olderAttached + (IF el.exists /\ el.attached THEN 1 ELSE 0)

OlderLoading(el) ==
  el.olderLoading + (IF el.exists /\ ~el.loaded THEN 1 ELSE 0)

\* fillImage falling back to the overlay's default width for a record
\* without a size
NewImage_DefaultSize(url, nat) ==
  [exists |-> TRUE, tag |-> TagOf(url), loaded |-> FALSE,
   natW |-> nat[1], natH |-> nat[2],
   style |-> [width |-> IF IsNum(config.width) THEN CssPx(config.width.v)
                        ELSE CssPx(Px(KonvaWidthDefault)),
              height |-> CssTextLength(config.height)],
   attached |-> TRUE,
   autoplay |-> TagOf(url) = "VIDEO", loop |-> TagOf(url) = "VIDEO",
   muted |-> TagOf(url) = "VIDEO",
   event |-> IF TagOf(url) = "VIDEO" THEN "loadeddata" ELSE "load",
   olderAttached |-> OlderAttached(imageEl),
   olderLoading |-> OlderLoading(imageEl)]

NewImage(url, nat) ==
  [exists |-> TRUE, tag |-> TagOf(url), loaded |-> FALSE,
   natW |-> nat[1], natH |-> nat[2],
   style |-> IF rev = "part"
             THEN [width |-> SetLengthNumber(CssEmpty, config.width, quirks),
                   height |-> SetLengthNumber(CssEmpty, config.height, quirks)]
             ELSE [width |-> CssEmpty, height |-> CssEmpty],
   attached |-> TRUE,
   autoplay |-> TagOf(url) = "VIDEO", loop |-> TagOf(url) = "VIDEO",
   muted |-> TagOf(url) = "VIDEO",
   event |-> IF TagOf(url) = "VIDEO" THEN "loadeddata" ELSE "load",
   olderAttached |-> OlderAttached(imageEl),
   olderLoading |-> OlderLoading(imageEl)]

\* fillImage(url), as long as fewer than n calls were made
fillImageUpTo(n, url, nat) ==
  /\ fills < n
  /\ fills' = fills + 1
  /\ imageEl' = NewImage(url, nat)
  /\ threw' = FALSE
  /\ hist' = [op |-> "fillImage", arg |-> <<url>>]
  /\ UNCHANGED <<rev, quirks, readOnly, preloaderBg, config, classes, alignSel, fields,
                 buttons, konva, entry>>

fillImage(url, nat) == fillImageUpTo(MaxFills, url, nat)

\* the load / loadeddata listener of an element of an earlier fillImage call
MediaLoadEarlier ==
  /\ imageEl.olderLoading > 0
  /\ imageEl' = [imageEl EXCEPT !.olderLoading = @ - 1]
  /\ classes' = toggleStatus(classes, "filled")
  /\ preloaderBg' = ""
  /\ threw' = FALSE
  /\ hist' = [op |-> "load", arg |-> <<"earlier">>]
  /\ UNCHANGED <<fills, rev, quirks, readOnly, config, alignSel, fields, buttons,
                 konva, entry>>

\* the load / loadeddata listener of the current element
MediaLoad ==
  /\ imageEl.exists /\ ~imageEl.loaded
  /\ imageEl' = [imageEl EXCEPT !.loaded = TRUE]
  /\ classes' = toggleStatus(classes, "filled")
  /\ preloaderBg' = ""
  /\ threw' = FALSE
  /\ hist' = [op |-> "load", arg |-> <<>>]
  /\ UNCHANGED <<fills, rev, quirks, readOnly, config, alignSel, fields, buttons,
                 konva, entry>>

\* what toolData.file can be: absent, null, an object without keys, an
\* object with a url
FileData == {"undefined", "null", "noKeys", "url"}

\* !file
Falsy(file) == file \in {"undefined", "null"}

\* Object.keys(file).length
KeyCount(file) == IF file = "url" THEN 1 ELSE 0

\* a render that takes an object without keys for a file
RenderStatus_MissingOnly(file) == IF Falsy(file) THEN "empty" ELSE "loading"

\* a render that shows a saved file as filled at once
RenderStatus_FilledAtOnce(file) ==
  IF Falsy(file) \/ KeyCount(file) = 0 THEN "empty" ELSE "filled"

\* the status render(toolData) sets
RenderStatus(file) ==
  IF Falsy(file) \/ KeyCount(file) = 0 THEN "empty" ELSE "loading"

render(file) ==
  /\ classes' = toggleStatus(classes, RenderStatus(file))
  /\ threw' = FALSE
  /\ hist' = [op |-> "render", arg |-> <<file>>]
  /\ UNCHANGED <<fills, rev, quirks, readOnly, preloaderBg, config, alignSel,
                 imageEl, fields, buttons, konva, entry>>

\* the preview sources the host passes to showPreloader
Previews == {"preview.png"}

showPreloader(src) ==
  /\ preloaderBg' = src
  /\ classes' = toggleStatus(classes, "loading")
  /\ threw' = FALSE
  /\ hist' = [op |-> "showPreloader", arg |-> <<src>>]
  /\ UNCHANGED <<fills, rev, quirks, readOnly, config, alignSel, imageEl, fields,
                 buttons, konva, entry>>

hidePreloader ==
  /\ preloaderBg' = ""
  /\ classes' = toggleStatus(classes, "empty")
  /\ threw' = FALSE
  /\ hist' = [op |-> "hidePreloader", arg |-> <<>>]
  /\ UNCHANGED <<fills, rev, quirks, readOnly, config, alignSel, imageEl, fields,
                 buttons, konva, entry>>

-----------------------------------------------------------------------------
(* Manual size entry *)

\* a contentEditable div takes text only while editable; an <input> takes
\* text whatever its contentEditable attribute says
CanType(editable) == rev = "part" \/ editable

TypeWidth(t) ==
  /\ CanType(fields.wEdit) /\ t # fields.wText
  /\ fields' = [fields EXCEPT !.wText = t]
  /\ threw' = FALSE
  /\ hist' = [op |-> "type", arg |-> <<"width">>]
  /\ UNCHANGED <<fills, rev, quirks, readOnly, preloaderBg, config, classes, alignSel, imageEl,
                 buttons, konva, entry>>

TypeHeight(t) ==
  /\ CanType(fields.hEdit) /\ t # fields.hText
  /\ fields' = [fields EXCEPT !.hText = t]
  /\ threw' = FALSE
  /\ hist' = [op |-> "type", arg |-> <<"height">>]
  /\ UNCHANGED <<fills, rev, quirks, readOnly, preloaderBg, config, classes, alignSel, imageEl,
                 buttons, konva, entry>>

\* config after onSetImageSize: src/src/ui.js writes the persisted and the
\* proxy size, part_000 writes nothing (its assignments are commented out)
SetSizeConfig(c, w, h) ==
  IF rev = "part" THEN c
  ELSE [c EXCEPT
          !.imageWidth = IF w = <<>> THEN Num(0) ELSE Number(w),
          !.imageHeight = IF h = <<>> THEN Num(0) ELSE Number(h),
          !.konvaWidth = IF Len(w) # 0 THEN Number(w) ELSE @,
          !.konvaHeight = IF Len(h) # 0 THEN Number(h) ELSE @]

\* inline style after onSetImageSize
SetSizeStyleUi(st, w, h) ==
  [width |-> IF w = <<>> THEN CssEmpty ELSE SetLengthText(st.width, w),
   height |-> IF h = <<>> THEN CssEmpty ELSE SetLengthText(st.height, h)]

SetSizeStylePart(st, w, h) ==
  IF w # <<>>
  THEN IF h # <<>>
       THEN [width |-> SetLengthNumber(st.width, Number(w), quirks),
             height |-> SetLengthNumber(st.height, Number(h), quirks)]
       ELSE [width |-> SetLengthNumber(st.width, Number(w), quirks),
             height |-> st.height]
  ELSE IF h # <<>>
       THEN [width |-> st.width,
             height |-> SetLengthNumber(st.height, Number(h), quirks)]
       ELSE st

SetSizeStyle(st, w, h) ==
  IF rev = "part" THEN SetSizeStylePart(st, w, h) ELSE SetSizeStyleUi(st, w, h)

PhOfStyle(css) ==
  [k |-> IF css.k = "px" THEN "css-px" ELSE "css-empty", v |-> css.v]

\* onSetImageSize, then what the listener that called it does next:
\* part_000 copies the inline size into the placeholder(s) named by `ph`.
\* Both dereference nodes.imageEl, which is undefined until fillImage ran:
\* the handler then ends in a TypeError, after the config assignments.
onSetImageSize(op, ph) ==
  LET w == fields.wText
      h == fields.hText
      st == SetSizeStyle(imageEl.style, w, h)
  IN
  /\ config' = SetSizeConfig(config, w, h)
  /\ IF imageEl.exists
     THEN /\ imageEl' = [imageEl EXCEPT !.style = st]
          /\ fields' = IF rev = "part"
                       THEN [fields EXCEPT
                               !.wPh = IF "width" \in ph THEN PhOfStyle(st.width) ELSE @,
                               !.hPh = IF "height" \in ph THEN PhOfStyle(st.height) ELSE @]
                       ELSE fields
          /\ threw' = FALSE
     ELSE /\ UNCHANGED <<imageEl, fields>>
          /\ threw' = TRUE
  /\ hist' = [op |-> op, arg |-> <<w, h>>]
  /\ UNCHANGED <<fills, rev, quirks, readOnly, preloaderBg, classes, alignSel, buttons, konva,
                 entry>>

\* click on the set-size button (a disabled button gets no click)
SetSizeClick ==
  /\ ~buttons.setSizeDisabled
  /\ onSetImageSize("setSizeClick", {"width", "height"})

\* Enter pressed in the width field
EnterWidth ==
  /\ CanType(fields.wEdit)
  /\ onSetImageSize("enterWidth", {"width"})

\* Enter pressed in the height field
EnterHeight ==
  /\ CanType(fields.hEdit)
  /\ onSetImageSize("enterHeight", {"height"})

-----------------------------------------------------------------------------
(* Interactive resize *)

\* half-up rounding of a length to whole pixels, as the width / height IDL
\* attributes of an element report it
RoundPx(v) == ((2 * v + Den) \div (2 * Den)) * Den

\* imageEl.width / imageEl.height while the element is in the document:
\* a VIDEO reflects its (absent) width attribute; an IMG reports its
\* rendered size, the inline size where given, else the natural size,
\* keeping the aspect ratio when only one side is given
RenderedWidth(el) ==
  IF el.tag = "VIDEO" THEN 0
  ELSE IF el.style.width.k = "px" THEN RoundPx(el.style.width.v)
  ELSE IF ~el.loaded THEN 0
  ELSE IF el.style.height.k = "px" /\ el.natH > 0
       THEN RoundPx((el.natW * el.style.height.v) \div el.natH)
  ELSE el.natW

RenderedHeight(el) ==
  IF el.tag = "VIDEO" THEN 0
  ELSE IF el.style.height.k = "px" THEN RoundPx(el.style.height.v)
  ELSE IF ~el.loaded THEN 0
  ELSE IF el.style.width.k = "px" /\ el.natW > 0
       THEN RoundPx((el.natH * el.style.width.v) \div el.natW)
  ELSE el.natH

\* image.width / image.height of the element once the stage has emptied the
\* container: the natural size of a decoded IMG, else 0
DetachedWidth(el) == IF el.tag = "IMG" /\ el.loaded THEN el.natW ELSE 0

DetachedHeight(el) == IF el.tag = "IMG" /\ el.loaded THEN el.natH ELSE 0

\* width of a Konva.Image: attrs.width, else the width of its image
KonvaSize(attr, el, own) ==
  IF attr.k = "num" THEN attr
  ELSE IF attr.k = "nan" THEN NaN
  ELSE IF el.exists THEN Num(own) ELSE NaN

\* |x| > num / den, as JavaScript evaluates it: false when a side is NaN,
\* undefined or (den = 0) the quotient is NaN or Infinity
Exceeds(x, num, den) ==
  IsNum(x) /\ IsNum(num) /\ den > 0 /\ Abs(x.v) * den > num.v

\* a bound check that looks at the width only
boundBoxFunc_WidthOnly(k, oldBoundBox, newBoundBox) ==
  IF Exceeds(newBoundBox.width, k.maxW, 1) THEN oldBoundBox ELSE newBoundBox

boundBoxFunc(k, oldBoundBox, newBoundBox) ==
  IF \/ Exceeds(newBoundBox.width, k.maxW, 1)
     \/ Exceeds(newBoundBox.height, k.maxHNum, k.maxHDen)
  THEN oldBoundBox
  ELSE newBoundBox

\* this.konva after makeImageResizable(imageEl)
makeImageResizable(c, el) ==
  IF rev = "part"
  THEN [stage |-> TRUE, overlay |-> TRUE, dragged |-> FALSE,
        box |-> [width |-> KonvaSize(c.width, el, DetachedWidth(el)),
                 height |-> KonvaSize(c.height, el, DetachedHeight(el))],
        maxW |-> c.konvaWidth,
        maxHNum |-> IF IsNum(c.konvaWidth)
                    THEN Num(RenderedHeight(el) * c.konvaWidth.v) ELSE NaN,
        maxHDen |-> RenderedWidth(el),
        rotateEnabled |-> TRUE,
        enabledAnchors |-> {"top-left", "top-right", "bottom-left",
                            "bottom-right"},
        draggable |-> TRUE]
  ELSE [stage |-> TRUE, overlay |-> TRUE, dragged |-> FALSE,
        box |-> [width |-> KonvaSize(c.konvaWidth, el, DetachedWidth(el)),
                 height |-> KonvaSize(c.konvaHeight, el, DetachedHeight(el))],
        maxW |-> Num(Px(MAX_WIDTH)),
        maxHNum |-> Num(Px(MAX_HEIGHT)),
        maxHDen |-> 1,
        rotateEnabled |-> FALSE,
        enabledAnchors |-> {"bottom-right"},
        draggable |-> FALSE]

\* the overlay is taken out of the container; its bound-box closure can no
\* longer run, the box its transformer last showed stays readable
RemoveOverlay(k) ==
  [k EXCEPT !.overlay = FALSE, !.maxW = Undef, !.maxHNum = Undef,
            !.maxHDen = 0]

\* a drag of a transformer anchor proposes the box (w, h)
Drag(w, h) ==
  /\ konva.overlay
  /\ LET new == [width |-> Num(w), height |-> Num(h)]
         box == boundBoxFunc(konva, konva.box, new)
     IN konva' = [konva EXCEPT !.box = box,
                               !.dragged = @ \/ box = new]
  /\ threw' = FALSE
  /\ hist' = [op |-> "drag", arg |-> <<w, h>>]
  /\ UNCHANGED <<fills, rev, quirks, readOnly, preloaderBg, config, classes, alignSel, imageEl,
                 fields, buttons, entry>>

\* what both listeners do first: flip the mode, show it on the wrapper,
\* disable the manual controls while the mode is on
ModeButtons(b, m) == [b EXCEPT !.setSizeDisabled = m]

ModeFields(f, m) == [f EXCEPT !.wEdit = ~m, !.hEdit = ~m]

\* the committed size written back on leaving resize mode
CommitConfig(c, box) ==
  IF rev = "part"
  THEN [c EXCEPT !.width = box.width, !.height = box.height]
  ELSE [c EXCEPT !.konvaWidth = box.width, !.konvaHeight = box.height,
                 !.imageWidth = ParseInt(box.width),
                 !.imageHeight = ParseInt(box.height)]

\* imageEl.style.cssText = `width:${w}px;height:${h}px;`
CommitStyle(box) ==
  [width |-> CssTextLength(box.width), height |-> CssTextLength(box.height)]

\* `${parseInt(x)} px`
PhOfInt(x) == [k |-> IF IsNum(x) THEN "int-px" ELSE "nan-px", v |-> x.v]

CommitFields(f, box) ==
  IF rev = "part"
  THEN [f EXCEPT !.hPh = PhOfInt(ParseInt(box.height))]
  ELSE [f EXCEPT !.wText = IntText(ParseInt(box.width)),
                 !.hText = IntText(ParseInt(box.height))]

\* click on the resize-mode button: entering the mode
EnterResizeMode ==
  LET m == TRUE IN
  /\ config' = [config EXCEPT !.isChangeResizeMode = m]
  /\ classes' = applyTune(classes, "resizeMode-on", m)
  /\ fields' = ModeFields(fields, m)
  /\ entry' = [valid |-> TRUE, persisted |-> Persisted(config),
               style |-> imageEl.style]
  /\ IF rev = "part" /\ ~imageEl.exists
     THEN \* makeImageResizable reads nodes.imageEl.width: TypeError
          /\ buttons' = ModeButtons(buttons, m)
          /\ threw' = TRUE
          /\ UNCHANGED <<imageEl, konva>>
     ELSE /\ buttons' = IF rev = "part"
                        THEN [ModeButtons(buttons, m) EXCEPT !.undoHidden = TRUE]
                        ELSE [ModeButtons(buttons, m) EXCEPT !.undoDisabled = ~m]
          /\ konva' = makeImageResizable(config, imageEl)
          /\ imageEl' = [imageEl EXCEPT !.attached = FALSE, !.olderAttached = 0]
          /\ threw' = FALSE

\* an exit that leaves the undo button enabled in both revisions
ExitButtons_UndoStaysOn(b, m) ==
  [ModeButtons(b, m) EXCEPT !.undoHidden = FALSE, !.undoDisabled = FALSE]

\* the buttons after a commit: src/src/ui.js disables undo again, part_000
\* shows it and enables it
ExitButtons(b, m) ==
  IF rev = "part"
  THEN [ModeButtons(b, m) EXCEPT !.undoHidden = FALSE, !.undoDisabled = FALSE]
  ELSE [ModeButtons(b, m) EXCEPT !.undoDisabled = ~m]

\* click on the resize-mode button: leaving the mode, committing the box
ExitResizeMode ==
  LET m == FALSE IN
  /\ classes' = applyTune(classes, "resizeMode-on", m)
  /\ entry' = NoEntry
  /\ IF ~konva.stage
     THEN \* this.konva.stage is undefined: TypeError
          /\ config' = [config EXCEPT !.isChangeResizeMode = m]
          /\ buttons' = ModeButtons(buttons, m)
          /\ fields' = ModeFields(fields, m)
          /\ threw' = TRUE
          /\ UNCHANGED <<imageEl, konva>>
     ELSE /\ konva' = RemoveOverlay(konva)
          /\ config' = CommitConfig([config EXCEPT !.isChangeResizeMode = m],
                                    konva.box)
          /\ buttons' = ExitButtons(buttons, m)
          /\ IF imageEl.exists
             THEN /\ imageEl' = [imageEl EXCEPT !.style = CommitStyle(konva.box),
                                                !.attached = TRUE]
                  /\ fields' = CommitFields(ModeFields(fields, m), konva.box)
                  /\ threw' = FALSE
             ELSE \* nodes.imageEl.style of undefined: TypeError
                  /\ fields' = ModeFields(fields, m)
                  /\ threw' = TRUE
                  /\ UNCHANGED imageEl

ResizeModeClick ==
  /\ IF config.isChangeResizeMode THEN ExitResizeMode ELSE EnterResizeMode
  /\ hist' = [op |-> IF config.isChangeResizeMode THEN "exitResize"
                     ELSE "enterResize",
              arg |-> <<>>]
  /\ UNCHANGED <<fills, rev, quirks, readOnly, preloaderBg, alignSel>>

\* an undo that writes the proxy's size back like a commit
UndoConfig_Commits(c, box) ==
  CommitConfig([c EXCEPT !.isChangeResizeMode = FALSE], box)

\* an undo that forgets to flip the mode flag
UndoConfig_StaysInMode(c, box) == c

\* config after undo in resize mode: only the mode flag changes
UndoConfig(c, box) == [c EXCEPT !.isChangeResizeMode = FALSE]

\* imageEl.style.cssText = ``
UndoStyle(st) == [width |-> CssEmpty, height |-> CssEmpty]

\* an undo listener that does not test the mode
InResizeMode_Untested(c) == TRUE

\* if (this.config.isChangeResizeMode)
InResizeMode(c) == c.isChangeResizeMode

\* click on the undo button (a disabled or hidden button gets no click)
UndoResizeClick ==
  /\ ~buttons.undoDisabled /\ ~buttons.undoHidden
  /\ IF InResizeMode(config)
     THEN LET m == FALSE IN
          /\ config' = UndoConfig(config, konva.box)
          /\ classes' = applyTune(classes, "resizeMode-on", m)
          /\ buttons' = [buttons EXCEPT !.undoDisabled = ~m,
                                        !.setSizeDisabled = m]
          /\ fields' = ModeFields(fields, m)
          /\ IF ~konva.stage
             THEN /\ threw' = TRUE
                  /\ UNCHANGED <<konva, imageEl>>
             ELSE /\ konva' = RemoveOverlay(konva)
                  /\ IF imageEl.exists
                     THEN /\ imageEl' = [imageEl EXCEPT
                                !.style = UndoStyle(imageEl.style),
                                !.attached = TRUE]
                          /\ threw' = FALSE
                     ELSE /\ threw' = TRUE
                          /\ UNCHANGED imageEl
     ELSE /\ buttons' = [buttons EXCEPT
                           !.undoDisabled = config.isChangeResizeMode]
          /\ classes' = applyTune(classes, "resizeMode-on",
                                  config.isChangeResizeMode)
          /\ threw' = FALSE
          /\ UNCHANGED <<config, fields, konva, imageEl>>
  /\ entry' = NoEntry
  /\ hist' = [op |-> "undoResize",
              arg |-> <<IF config.isChangeResizeMode THEN "on" ELSE "off">>]
  /\ UNCHANGED <<fills, rev, quirks, readOnly, preloaderBg, alignSel>>

-----------------------------------------------------------------------------
(* The component under every order of host calls and user events *)

\* the size controls worked with the pointer on one still image: manual
\* entry through the set-size button, resize mode, drag and undo
NextSize ==
  \/ \E m \in Stills : fillImage(m[1], <<m[2], m[3]>>)
  \/ MediaLoad
  \/ \E t \in WidthTexts : TypeWidth(t)
  \/ \E t \in HeightTexts : TypeHeight(t)
  \/ SetSizeClick
  \/ ResizeModeClick
  \/ \E b \in DragBoxes : Drag(b[1], b[2])
  \/ UndoResizeClick

\* the size controls worked with the keyboard as well: Enter in a size
\* field next to the buttons, without drags
NextKeys ==
  \/ \E m \in Stills : fillImage(m[1], <<m[2], m[3]>>)
  \/ MediaLoad
  \/ \E t \in WidthTexts : TypeWidth(t)
  \/ \E t \in HeightTexts : TypeHeight(t)
  \/ SetSizeClick
  \/ EnterWidth
  \/ EnterHeight
  \/ ResizeModeClick
  \/ UndoResizeClick

\* alignment, tunes and media
NextTunes ==
  \/ \E a \in Aligns : onSelectAlign(a)
  \/ \E t \in Tunes, b \in BOOLEAN : HostApplyTune(t, b)
  \/ \E m \in Media : fillImage(m[1], <<m[2], m[3]>>)
  \/ MediaLoad

\* the host's status calls and media events, next to the user's pointer
\* actions on the alignment and size controls
NextStatus ==
  \/ \E f \in FileData : render(f)
  \/ \E src \in Previews : showPreloader(src)
  \/ hidePreloader
  \/ \E m \in Media : fillImage(m[1], <<m[2], m[3]>>)
  \/ MediaLoad
  \/ \E a \in Aligns : onSelectAlign(a)
  \/ TypeWidth(<<"3", "0", "0">>)
  \/ SetSizeClick
  \/ ResizeModeClick
  \/ UndoResizeClick

\* the host's calls alone, with urls of every shape
NextFill ==
  \/ \E u \in Urls : fillImage(u, <<Px(400), Px(200)>>)
  \/ MediaLoad
  \/ \E f \in FileData : render(f)
  \/ \E src \in Previews : showPreloader(src)
  \/ hidePreloader

\* repeated fillImage calls, with the load events of all elements, the
\* preloader calls and the resize mode
NextMedia ==
  \/ \E m \in Media : fillImageUpTo(MaxFills + 1, m[1], <<m[2], m[3]>>)
  \/ MediaLoad
  \/ MediaLoadEarlier
  \/ \E src \in Previews : showPreloader(src)
  \/ hidePreloader
  \/ ResizeModeClick

\* a block constructed read-only: media, the size controls and the mode
NextReadOnly ==
  \/ \E m \in Stills : fillImage(m[1], <<m[2], m[3]>>)
  \/ MediaLoad
  \/ \E t \in WidthTexts : TypeWidth(t)
  \/ \E t \in HeightTexts : TypeHeight(t)
  \/ SetSizeClick
  \/ ResizeModeClick
  \/ UndoResizeClick

InitReadOnly == Init /\ readOnly = TRUE

InitSize == Init /\ ~readOnly

InitUi == InitSize /\ rev = "ui"

InitPart == InitSize /\ rev = "part"

SpecUi == InitUi /\ [][NextSize]_vars

SpecPart == InitPart /\ [][NextSize]_vars

SpecSize == InitSize /\ [][NextSize]_vars

SpecKeys == InitSize /\ [][NextKeys]_vars

SpecTunes == Init /\ [][NextTunes]_vars

SpecStatus == InitSize /\ [][NextStatus]_vars

SpecFill == Init /\ [][NextFill]_vars

SpecReadOnly == InitReadOnly /\ [][NextReadOnly]_vars

SpecMedia == InitSize /\ [][NextMedia]_vars

-----------------------------------------------------------------------------
(* Claims about the alignment toggles *)

\* the positions whose flag is set
Selected(c) == applyAlign(c)

\* C1: after any sequence of onSelectAlign calls at most one of
\* isSelectedLeft, isSelectedCenter, isSelectedRight is true
C1_AtMostOneAligned == Cardinality(Selected(config)) <= 1

\* a second position was selected and is the only one set
C1_Witness ==
  /\ hist.op = "onSelectAlign" /\ hist.arg = <<"center", {"left"}>>
  /\ Selected(config) = {"center"}
  /\ ClassOf("center") \in classes /\ ClassOf("left") \notin classes

\* C2: onSelectAlign(x) on the currently selected position x leaves no
\* position selected
C2_ReselectClears ==
  [][(hist'.op = "onSelectAlign" /\ hist'.arg[1] \in Selected(config))
       => Selected(config') = {}]_vars

\* a position was re-selected and nothing is selected any more
C2_Witness ==
  /\ hist.op = "onSelectAlign" /\ hist.arg = <<"right", {"right"}>>
  /\ Selected(config) = {}
  /\ alignSel = {}

\* C3: onSelectAlign(x) on a position x that is not selected makes x the
\* only selected position, whatever was selected before
C3_SelectMakesOnly ==
  [][(hist'.op = "onSelectAlign" /\ hist'.arg[1] \notin Selected(config))
       => Selected(config') = {hist'.arg[1]}]_vars

\* left was selected while another alignment button showed as selected
C3_Witness ==
  /\ hist.op = "onSelectAlign" /\ hist.arg = <<"left", {"center"}>>
  /\ Selected(config) = {"left"}
  /\ alignSel = {"left"}

-----------------------------------------------------------------------------
(* Claims about resize mode, undo and commit *)

InMode == config.isChangeResizeMode

\* the block shows a decoded image
Shown == imageEl.exists /\ imageEl.loaded

\* the step is a run of the undo listener in resize mode
UndoInMode == hist'.op = "undoResize" /\ InMode

\* the step is a run of the resize-mode listener that leaves the mode and
\* reads back a box an accepted drag of this session produced
CommitAfterDrag ==
  hist'.op = "exitResize" /\ konva.overlay /\ konva.dragged /\ Shown

\* C4: entering resize mode, dragging, then undo leaves the persisted width
\* and height as they were when the mode was entered
C4_UndoKeepsPersisted ==
  [][UndoInMode => (entry.valid /\ Persisted(config') = entry.persisted)]_vars

\* undo ran in resize mode after an accepted drag, with a persisted size
\* from an earlier manual entry
C4_Witness ==
  /\ hist.op = "undoResize" /\ hist.arg = <<"on">>
  /\ konva.dragged /\ konva.box.width = Num(Px(250) + 1)
  /\ Persisted(config) = [width |-> Num(Px(300)), height |-> Num(Px(151))]

\* C5 as claimed: undo in resize mode removes the overlay, returns to
\* Static and restores the inline width / height of the image element to
\* what they were when the mode was entered
C5_UndoRestoresInline ==
  [][(UndoInMode /\ Shown) =>
       /\ ~konva'.overlay
       /\ ~config'.isChangeResizeMode
       /\ imageEl'.style = entry.style]_vars

\* C6 as claimed: the accepted drag size is written to the persisted width
\* and height unaltered
C6_CommitExact ==
  [][CommitAfterDrag => Persisted(config') = konva.box]_vars

\* a JavaScript number is a width (height) beyond the extent of src/src/ui.js
OverMax(x, max) == IsNum(x) /\ x.v > Px(max)

\* C7 as claimed: the width and height committed on leaving resize mode
\* never exceed 700 x 410
C7_CommitWithinMax ==
  (hist.op = "exitResize" /\ Shown /\ rev = "ui")
    => /\ ~OverMax(config.imageWidth, MAX_WIDTH)
       /\ ~OverMax(config.imageHeight, MAX_HEIGHT)

\* the proposed box of a drag lies beyond the canvas extent of the session:
\* 700 x 410 in src/src/ui.js; in part_000 config.konvaWidth wide and as
\* high as the image's aspect ratio makes it (no bound when that is NaN)
OverExtent(w, h) ==
  IF rev = "ui"
  THEN Abs(w) > Px(MAX_WIDTH) \/ Abs(h) > Px(MAX_HEIGHT)
  ELSE \/ Abs(w) > Px(KonvaWidthDefault)
       \/ /\ konva.maxHDen > 0
          /\ Abs(h) * konva.maxHDen > konva.maxHNum.v

\* C8: a drag proposing a box beyond the extent leaves the proxy's width
\* and height as they were, raises nothing and stays in resize mode; a
\* proposal within the extent becomes the proxy's geometry
C8_DragBoundCheck ==
  [][hist'.op = "drag" =>
       LET w == hist'.arg[1]
           h == hist'.arg[2]
       IN /\ OverExtent(w, h) => konva'.box = konva.box
          /\ ~OverExtent(w, h) =>
               konva'.box = [width |-> Num(w), height |-> Num(h)]
          /\ ~threw'
          /\ konva'.overlay
          /\ config'.isChangeResizeMode = config.isChangeResizeMode]_vars

\* a proposal beyond the extent was rejected after one within it was taken
C8_Witness ==
  /\ hist.op = "drag" /\ hist.arg = <<Px(MAX_WIDTH) + 1, Px(120) + 1>>
  /\ konva.box = [width |-> Num(Px(250) + 1), height |-> Num(Px(120) + 1)]
  /\ InMode /\ konva.overlay

-----------------------------------------------------------------------------
(* Claims about manual size entry *)

SetSizeOps == {"setSizeClick", "enterWidth", "enterHeight"}

\* the step is a run of onSetImageSize on a shown image
SetSizeRan == hist'.op \in SetSizeOps /\ Shown

\* a dimension has a committed size: a number is persisted and rendered
Committed(p, st) == IsNum(p) /\ p.v > 0 /\ st = CssPx(p.v)

\* C9 as claimed: with exactly one size field empty, the dimension of the
\* empty field keeps its previous committed value, persisted and rendered
C9_EmptyFieldKeeps ==
  [][SetSizeRan =>
       /\ ( /\ fields.hText = <<>> /\ fields.wText # <<>>
            /\ Committed(Persisted(config).height, imageEl.style.height) ) =>
            /\ Persisted(config').height = Persisted(config).height
            /\ imageEl'.style.height = imageEl.style.height
       /\ ( /\ fields.wText = <<>> /\ fields.hText # <<>>
            /\ Committed(Persisted(config).width, imageEl.style.width) ) =>
            /\ Persisted(config').width = Persisted(config).width
            /\ imageEl'.style.width = imageEl.style.width]_vars

\* C10 as claimed: with numeric text w and h in both fields, the persisted
\* size is (w, h) and the image element is sized w x h pixels
C10_BothApplied ==
  [][(SetSizeRan /\ IsDigits(fields.wText) /\ IsDigits(fields.hText)) =>
       /\ Persisted(config') = [width |-> Num(Px(DecVal(fields.wText))),
                                height |-> Num(Px(DecVal(fields.hText)))]
       /\ imageEl'.style = [width |-> CssPx(Px(DecVal(fields.wText))),
                            height |-> CssPx(Px(DecVal(fields.hText)))]]_vars

\* text that Number() reads as NaN
NonNumeric(s) == Number(s) = NaN

\* C11 as claimed: a size field with non-numeric text gives its dimension
\* the stored value and the rendering an empty field gives it, and raises
\* no error
C11_NonNumericAsUnset ==
  [][(SetSizeRan /\ NonNumeric(fields.wText)) =>
       /\ Persisted(config').width =
            Persisted(SetSizeConfig(config, <<>>, fields.hText)).width
       /\ imageEl'.style.width =
            SetSizeStyle(imageEl.style, <<>>, fields.hText).width
       /\ ~threw']_vars

-----------------------------------------------------------------------------
(* Claims about the controls that resize mode disables *)

\* the step is a run of onSetImageSize while resize mode is on
SetSizeInMode == hist'.op \in SetSizeOps /\ InMode

\* C12 as claimed: in resize mode no manual-size trigger (set-size click,
\* Enter in a size field) changes the persisted size or the inline size of
\* the image element
C12_NoManualWriteInMode ==
  [][SetSizeInMode =>
       /\ Persisted(config') = Persisted(config)
       /\ imageEl'.style = imageEl.style]_vars

\* the user can change the text of the width / height field
WidthEditable == CanType(fields.wEdit)

HeightEditable == CanType(fields.hEdit)

\* C13 as claimed: the set-size button is disabled and the size fields are
\* non-editable exactly when the component is in resize mode
C13_ManualControlsFollowMode ==
  /\ buttons.setSizeDisabled = InMode
  /\ WidthEditable = ~InMode
  /\ HeightEditable = ~InMode

\* the undo button takes a click
UndoUsable == ~buttons.undoDisabled /\ ~buttons.undoHidden

\* the last step was a commit (exit from resize mode through its button)
JustCommitted == hist.op = "exitResize"

\* C14 as claimed: the undo control is usable only in resize mode or, in
\* part_000, immediately after a commit; it is disabled initially.
\* Refuted for part_000, where it stays usable after later operations.
C14_UndoOnlyInModeOrJustCommitted ==
  /\ hist.op = "init" => buttons.undoDisabled
  /\ UndoUsable => (InMode \/ (rev = "part" /\ JustCommitted))

\* C14 amended: the undo control is disabled initially; in src/src/ui.js it
\* is usable only in resize mode; in part_000 it is usable only in Static,
\* it becomes usable only by a commit and stays so until the mode is next
\* entered
C14_UndoEnabledWhen ==
  /\ [](hist.op = "init" => buttons.undoDisabled)
  /\ [](UndoUsable => IF rev = "ui" THEN InMode ELSE ~InMode)
  /\ [][(rev = "part" /\ ~UndoUsable /\ UndoUsable') =>
          hist'.op = "exitResize"]_vars
  /\ [][(rev = "part" /\ UndoUsable /\ ~UndoUsable') =>
          hist'.op = "enterResize"]_vars

\* in part_000 the undo button still takes a click after a commit and a
\* later manual entry
C14_Witness ==
  /\ rev = "part" /\ UndoUsable /\ ~InMode
  /\ hist.op = "setSizeClick" /\ konva.stage

-----------------------------------------------------------------------------
(* Claims about the state a commit leaves *)

\* the last step left resize mode through its button and re-rendered a
\* shown image
CommitRan == hist.op = "exitResize" /\ Shown /\ ~threw

\* an inline length is the persisted number, in pixels
RenderedAs(p, css) == IsNum(p) /\ css = CssPx(p.v)

\* C15 as claimed: after every commit the inline width and height of the
\* image element equal the persisted width and height
C15_CommitRenderedAsPersisted ==
  CommitRan =>
    /\ RenderedAs(Persisted(config).width, imageEl.style.width)
    /\ RenderedAs(Persisted(config).height, imageEl.style.height)

\* the step leaves resize mode through its button and re-renders a shown
\* image
CommitStep == hist'.op = "exitResize" /\ konva.overlay /\ Shown

\* a placeholder whose text is the number x, exact or cut to whole pixels
PhShows(ph, x) ==
  /\ IsNum(x)
  /\ ph.k \in {"number", "css-px", "int-px"}
  /\ ph.v \in {x.v, ParseInt(x).v}

\* C16 as claimed: after a commit both size fields show the committed
\* width and height as placeholders and keep their literal content
C16_CommitShownAsPlaceholders ==
  [][CommitStep =>
       /\ PhShows(fields'.wPh, Persisted(config').width)
       /\ PhShows(fields'.hPh, Persisted(config').height)
       /\ fields'.wText = fields.wText
       /\ fields'.hText = fields.hText]_vars

-----------------------------------------------------------------------------
(* Claims about the status display *)

\* the status classes the wrapper carries
StatusClasses == {ClassOf(st) : st \in Statuses} \cap classes

Empty == StatusClasses = {ClassOf("empty")}

Uploading == StatusClasses = {ClassOf("loading")}

Filled == ClassOf("filled") \in classes

\* the operations that call toggleStatus
StatusOps == {"render", "showPreloader", "hidePreloader", "load"}

\* C17: the wrapper never carries two status classes, and carries exactly
\* one from the first status-setting operation on
C17_OneStatus ==
  /\ [](Cardinality(StatusClasses) <= 1)
  /\ [](hist.op \in StatusOps => Cardinality(StatusClasses) = 1)
  /\ [][Cardinality(StatusClasses) = 1 =>
          Cardinality(StatusClasses') = 1]_vars

\* a video's loadeddata event made Filled the one status class, next to
\* an alignment class
C17_Witness ==
  /\ hist.op = "load" /\ StatusClasses = {ClassOf("filled")}
  /\ ClassOf("left") \in classes /\ preloaderBg = ""
  /\ imageEl.tag = "VIDEO"

\* C18: the status becomes Filled only by the load event of an element a
\* fillImage call created; fillImage itself never sets Filled
C18_FilledOnlyOnLoad ==
  /\ [][(~Filled /\ Filled') =>
          /\ hist'.op = "load"
          /\ imageEl.exists /\ ~imageEl.loaded /\ imageEl'.loaded
          /\ fills > 0]_vars
  /\ [][hist'.op = "fillImage" => (Filled' <=> Filled)]_vars

\* a filled-in element loaded while the status was Uploading
C18_Witness ==
  /\ hist.op = "load" /\ Filled /\ imageEl.loaded /\ fills = 1
  /\ ~Uploading /\ imageEl.tag = "IMG"

\* the operations the user triggers
UserOps ==
  {"onSelectAlign", "type", "setSizeClick", "enterWidth", "enterHeight",
   "enterResize", "exitResize", "drag", "undoResize"}

\* C19: while no load event arrives and the host calls neither
\* hidePreloader nor render, status Uploading stays: no user action and no
\* fillImage changes it
C19_UploadingStays ==
  [][(Uploading /\ hist'.op \notin {"load", "hidePreloader", "render"}) =>
       Uploading']_vars

\* a whole resize session ran on an element that never loaded, and the
\* status is still Uploading
C19_Witness ==
  /\ Uploading /\ hist.op = "exitResize"
  /\ imageEl.exists /\ ~imageEl.loaded

\* C20: render sets Empty when toolData.file is missing or has no keys,
\* Uploading otherwise, and does not throw
C20_RenderStatus ==
  [][hist'.op = "render" =>
       /\ hist'.arg[1] \in {"undefined", "null", "noKeys"} => Empty'
       /\ hist'.arg[1] = "url" => Uploading'
       /\ ~threw']_vars

\* render found no file on a block that showed Filled
C20_Witness ==
  /\ hist = [op |-> "render", arg |-> <<"noKeys">>]
  /\ Empty /\ imageEl.loaded

-----------------------------------------------------------------------------
(* Claims about errors and the persisted size *)

\* C21 as claimed: no operation of the user or the host ends in a thrown
\* error, also before an image was filled in or a resize session created
C21_NeverThrows == ~threw

\* a persisted dimension that says "natural size": undefined, or the 0
\* an empty field stores
Unset(x) == x = Undef \/ x = Num(0)

\* C22 as claimed: the persisted width and height are both unset or both
\* present
C22_BothOrNeither ==
  Unset(Persisted(config).width) <=> Unset(Persisted(config).height)

\* C23 as claimed: a persisted width or height is undefined or a
\* non-negative number
C23_NonNegativeNumbers ==
  \A x \in {Persisted(config).width, Persisted(config).height} :
    x = Undef \/ (IsNum(x) /\ x.v >= 0)

-----------------------------------------------------------------------------
(* Claims about the resize session *)

\* C24 as claimed: the overlay of a resize session is attached exactly
\* while the component is in resize mode
C24_SessionIffMode == konva.overlay <=> InMode

\* the anchors at the corners of a transformer
CornerAnchors == {"top-left", "top-right", "bottom-left", "bottom-right"}

\* C25 as claimed: a resize session has rotation disabled, corner anchors
\* only, and a proxy that cannot be dragged to another place
C25_SessionHandles ==
  konva.overlay =>
    /\ ~konva.rotateEnabled
    /\ konva.enabledAnchors # {} /\ konva.enabledAnchors \subseteq CornerAnchors
    /\ ~konva.draggable

-----------------------------------------------------------------------------
(* Claims about the element fillImage creates *)

\* the last four characters of the url are .mp4
EndsInMp4(url) ==
  LET s == UrlChars(url)
      n == Len(s)
  IN n >= 4 /\ s[n - 3] = "." /\ s[n - 2] = "m" /\ s[n - 1] = "p" /\ s[n] = "4"

\* C26: fillImage creates a VIDEO with autoplay, loop and muted, listening
\* for loadeddata, exactly when the url ends in .mp4, and else an IMG
\* listening for load
C26_TagByExtension ==
  [][hist'.op = "fillImage" =>
       IF EndsInMp4(hist'.arg[1])
       THEN /\ imageEl'.tag = "VIDEO" /\ imageEl'.event = "loadeddata"
            /\ imageEl'.autoplay /\ imageEl'.loop /\ imageEl'.muted
       ELSE /\ imageEl'.tag = "IMG" /\ imageEl'.event = "load"
            /\ ~imageEl'.autoplay /\ ~imageEl'.loop /\ ~imageEl'.muted]_vars

\* a url with .mp4 before a query string gave an IMG
C26_Witness ==
  /\ hist = [op |-> "fillImage", arg |-> <<"c.mp4?v=1">>]
  /\ imageEl.exists /\ imageEl.tag = "IMG" /\ imageEl.event = "load"

\* the record the block was built from carried width and height
SavedWithSize == IsNum(config.width) /\ IsNum(config.height)

\* C27 as claimed: an element filled for a record that carries width and
\* height has exactly that inline pixel size once it is loaded and Filled
C27_SavedSizeDisplayed ==
  (SavedWithSize /\ imageEl.exists /\ imageEl.loaded /\ Filled) =>
    /\ RenderedAs(config.width, imageEl.style.width)
    /\ RenderedAs(config.height, imageEl.style.height)

\* the configuration of a block built from a record without width, height
\* and alignment
Unkeyed ==
  /\ Persisted(config) = [width |-> Undef, height |-> Undef]
  /\ config.width = Undef /\ config.height = Undef
  /\ ~config.isSelectedLeft /\ ~config.isSelectedCenter
  /\ ~config.isSelectedRight

\* no inline size on the image element and no alignment class on the wrapper
NaturalUnaligned ==
  /\ imageEl.style = [width |-> CssEmpty, height |-> CssEmpty]
  /\ classes \cap {ClassOf(a) : a \in Aligns} = {}

\* the user's alignment, manual-size and resize actions
SizeAlignOps == UserOps \ {"type"}

\* C28: a block built from a record without width, height and alignment has
\* no inline size on its image element and no alignment class, and every
\* step other than the user's alignment, manual-size and resize actions
\* keeps it so
C28_NaturalUntilUserActs ==
  /\ []((hist.op = "init" /\ Unkeyed) => NaturalUnaligned)
  /\ [][(Unkeyed /\ NaturalUnaligned /\ hist'.op \notin SizeAlignOps)
          => NaturalUnaligned']_vars

\* the element of such a block was filled and loaded and has no inline size
C28_Witness ==
  /\ Unkeyed /\ hist.op = "load" /\ imageEl.loaded /\ Filled
  /\ NaturalUnaligned

-----------------------------------------------------------------------------
(* Claims about tunes and the alignment buttons *)

TuneClasses == {ClassOf(t) : t \in Tunes}

\* C29: applyTune(name, status) changes no wrapper class other than the one
\* of that tune, no alignment flag and no alignment button; onSelectAlign
\* changes no border, background or stretch class
C29_TunesIndependent ==
  [][/\ hist'.op = "applyTune" =>
          /\ classes' \ {ClassOf(hist'.arg[1])} = classes \ {ClassOf(hist'.arg[1])}
          /\ config' = config
          /\ alignSel' = alignSel
     /\ hist'.op = "onSelectAlign" =>
          classes' \cap TuneClasses = classes \cap TuneClasses]_vars

\* stretched was put on next to a border and a left alignment
C29_Witness ==
  /\ hist = [op |-> "applyTune", arg |-> <<"stretched">>]
  /\ {ClassOf("stretched"), ClassOf("withBorder"), ClassOf("left")} \subseteq classes
  /\ alignSel = {"left"}

\* the flag of one position
FlagOf(c, p) ==
  CASE p = "left" -> c.isSelectedLeft
    [] p = "center" -> c.isSelectedCenter
    [] p = "right" -> c.isSelectedRight

\* C30: after every onSelectAlign, for each position the wrapper carries the
\* position's class exactly when its flag is true, and the position's button
\* is shown selected exactly when its flag is true
C30_AlignShownAsFlags ==
  hist.op = "onSelectAlign" =>
    \A p \in Aligns :
      /\ ClassOf(p) \in classes <=> FlagOf(config, p)
      /\ p \in alignSel <=> FlagOf(config, p)

\* left was selected after centre, with the stretched tune on
C30_Witness ==
  /\ hist = [op |-> "onSelectAlign", arg |-> <<"left", {"center"}>>]
  /\ ClassOf("left") \in classes /\ ClassOf("center") \notin classes
  /\ ClassOf("stretched") \in classes
  /\ alignSel = {"left"} /\ config.isSelectedLeft /\ ~config.isSelectedCenter

-----------------------------------------------------------------------------
(* Claims about entering and leaving resize mode *)

\* a loaded still image is shown
StillShown == imageEl.exists /\ imageEl.loaded /\ imageEl.tag = "IMG"

\* C31 as claimed: on entry to resize mode the proxy starts with the width
\* and height the image is rendered with, and within the maximal extent
C31_ProxyStartsAsRendered ==
  [][(hist'.op = "enterResize" /\ konva'.overlay /\ StillShown) =>
       /\ konva'.box.width = Num(RenderedWidth(imageEl))
       /\ konva'.box.height = Num(RenderedHeight(imageEl))
       /\ konva'.box.width.v <= Px(MAX_WIDTH)
       /\ konva'.box.height.v <= Px(MAX_HEIGHT)]_vars

\* persisted size, inline size and placeholders
SizeState(c, el, f) ==
  [persisted |-> Persisted(c), style |-> el.style, wPh |-> f.wPh, hPh |-> f.hPh]

\* the size state a click on the set-size button gives in the current state
AfterSetSizeClick ==
  LET st == SetSizeStyle(imageEl.style, fields.wText, fields.hText)
      c == SetSizeConfig(config, fields.wText, fields.hText)
  IN IF ~imageEl.exists THEN SizeState(c, imageEl, fields)
     ELSE [persisted |-> Persisted(c), style |-> st,
           wPh |-> IF rev = "part" THEN PhOfStyle(st.width) ELSE fields.wPh,
           hPh |-> IF rev = "part" THEN PhOfStyle(st.height) ELSE fields.hPh]

\* C32 as claimed: Enter in a size field leaves the persisted size, the
\* inline size and the placeholders as a click on the set-size button in the
\* same state would
C32_EnterAsButton ==
  [][hist'.op \in {"enterWidth", "enterHeight"} =>
       SizeState(config', imageEl', fields') = AfterSetSizeClick]_vars

\* C33: the component starts in static mode, every click of the resize-mode
\* button flips the mode, and the wrapper carries image-tool--resizeMode-on
\* exactly when the component is in resize mode
C33_ModeShown ==
  /\ [](hist.op = "init" => ~InMode)
  /\ [](ClassOf("resizeMode-on") \in classes <=> InMode)
  /\ [][hist'.op \in {"enterResize", "exitResize"} => (InMode' <=> ~InMode)]_vars

\* an undo click in resize mode went back to static mode
C33_Witness ==
  /\ hist = [op |-> "undoResize", arg |-> <<"on">>]
  /\ ~InMode /\ ClassOf("resizeMode-on") \notin classes
  /\ StillShown

\* the element as it was shown at entry to resize mode
ElementAtEntry == [imageEl EXCEPT !.style = entry.style, !.attached = TRUE]

\* C34 as claimed: leaving resize mode by the resize-mode button without a
\* drag since entry leaves the persisted width and height and the rendered
\* size of the image as they were at entry
C34_EnterExitIdentity ==
  [][(hist'.op = "exitResize" /\ entry.valid /\ konva.overlay
        /\ ~konva.dragged /\ StillShown) =>
       /\ Persisted(config') = entry.persisted
       /\ RenderedWidth(imageEl') = RenderedWidth(ElementAtEntry)
       /\ RenderedHeight(imageEl') = RenderedHeight(ElementAtEntry)]_vars

\* C35 as claimed: in a block constructed with readOnly true the width and
\* height fields are never editable
C35_ReadOnlyStays == readOnly => (~WidthEditable /\ ~HeightEditable)

-----------------------------------------------------------------------------
(* Claims about the status and the media element *)

\* C36: status Filled implies that an image element exists, and after
\* hidePreloader the status is Empty, after showPreloader Uploading,
\* whatever it was before
C36_FilledHasElement ==
  /\ [](Filled => imageEl.exists)
  /\ [](hist.op = "hidePreloader" => Empty)
  /\ [](hist.op = "showPreloader" => Uploading)

\* hidePreloader was called for a loaded element: the status is Empty
C36_Witness ==
  /\ hist.op = "hidePreloader" /\ imageEl.exists /\ imageEl.loaded
  /\ Empty /\ ~Filled

\* the media elements in the image container
AttachedCount ==
  imageEl.olderAttached + (IF imageEl.exists /\ imageEl.attached THEN 1 ELSE 0)

\* C37 as claimed: in static mode at most one media element is in the image
\* container, and it is the one nodes.imageEl refers to; the load event of
\* an element of an earlier fillImage call does not set Filled while the
\* element of the latest call is still loading
C37_OneElementOneLoad ==
  /\ [](~InMode => (AttachedCount <= 1 /\ imageEl.olderAttached = 0))
  /\ [][(hist'.op = "load" /\ hist'.arg = <<"earlier">> /\ ~imageEl'.loaded)
          => ~Filled']_vars

-----------------------------------------------------------------------------
(* Claims about undo in static mode *)

\* C38: the undo listener run in static mode leaves the mode static, the
\* persisted width and height and the inline size of the image unchanged,
\* and neither creates nor removes an overlay
C38_UndoStaticNoOp ==
  [][(hist'.op = "undoResize" /\ ~InMode) =>
       /\ ~InMode'
       /\ Persisted(config') = Persisted(config)
       /\ imageEl'.style = imageEl.style
       /\ konva' = konva]_vars

\* undo was clicked in static mode after a commit: the committed size stays
C38_Witness ==
  /\ hist = [op |-> "undoResize", arg |-> <<"off">>]
  /\ ~InMode /\ ~konva.overlay /\ konva.stage
  /\ imageEl.style.width.k = "px" /\ IsNum(Persisted(config).width)

=============================================================================
